---- MODULE Spec2Model ----
(***************************************************************************)
(* Model of the two controller scripts of the repository:                  *)
(*   Milestone35.py  - the Morse beacon (CWMachine)                        *)
(*   Thermostat.py   - the thermostat (TemperatureMachine)                 *)
(* prog says which of the two scripts is running.  Strings of the program  *)
(* are sequences of one-character strings; durations are in quarter        *)
(* time-units (0.25 s).                                                    *)
(***************************************************************************)
EXTENDS Integers, Sequences, FiniteSets, TLC

VARIABLES
    prog,             \* "beacon", "thermostat", or "fire" (automaton driven event by event)
    current_state,    \* StateMachine.current_state of the running machine
    redLight,         \* LED 18: "off", "on" or "pulse"
    blueLight,        \* LED 23: "off", "on" or "pulse"
    screen,           \* last message given to ManagedDisplay.updateScreen
    cleanups,         \* number of calls of ManagedDisplay.cleanupDisplay
    mainpc,           \* main thread: "running", "grace" (sleep(1) after the flag), "exited"
    \* ---- beacon
    message1, message2, activeMessage, endTransmission,
    tpc,              \* position of the transmit thread
    wordList, wi, ci, si,                     \* the three for loops of transmit
    wordsCounter, wordCounter, morseCounter,
    trace,            \* signal and gap states entered in the current pass
    passMessage,      \* the message the current pass was split from
    passDone,         \* the current pass ran to the end of its word list
    holdsSinceEnd,    \* holds begun after endTransmission was set
    delaySinceEnd,    \* their total duration, in quarter time-units
    deadTime,         \* what the automaton did since it last entered a signal state
    \* ---- automaton driven event by event
    lastEvent, lastFrom, lastResult, fires,
    \* ---- thermostat
    setPoint, endDisplay,
    wpc,              \* position of the manageMyDisplay thread
    counter, altCounter,
    tick,             \* iterations of the manageMyDisplay loop so far
    shown,            \* what each tick put on the second display line
    emitTicks,        \* the ticks that wrote to the serial port
    ser,              \* what the last step wrote to the serial port, and from what
    lit,              \* the updateLights call the last step ended with, if any
    cycleHist,        \* the states around the last (up to 3) cycle events
    cycleErrors,      \* cycle events that raised
    wSleep,           \* after the flag: quarter time-units left of the worker's sleep(1)
    grace,            \* after the flag: quarter time-units left of the main thread's sleep(1)
    \* ---- thermostat, thread by thread
    pc,               \* position of each thread (worker and the three button callbacks)
    ulret,            \* where each thread's updateLights call returns to
    gfret,            \* where each thread's getFahrenheit call returns to
    ltemp,            \* each thread's local reading (c, then temp)
    reg,              \* the setPoint each thread read for its += 1 / -= 1
    done,             \* completed callbacks of each button
    sensor_lock,      \* the thread holding sensor_lock, or "free"
    wline             \* the worker's local lcd_line_2

beaconVars == <<message1, message2, activeMessage, endTransmission, tpc,
                wordList, wi, ci, si, wordsCounter, wordCounter, morseCounter,
                trace, passMessage, passDone, holdsSinceEnd, delaySinceEnd,
                deadTime>>
fireVars == <<lastEvent, lastFrom, lastResult, fires>>
commonVars == <<prog, current_state, redLight, blueLight, screen, cleanups, mainpc>>
threadVars == <<pc, ulret, gfret, ltemp, reg, done, sensor_lock, wline>>
thermoVars == <<setPoint, endDisplay, wpc, counter, altCounter, tick, shown,
                emitTicks, ser, lit, cycleHist, cycleErrors, wSleep, grace,
                threadVars>>
vars == <<commonVars, beaconVars, fireVars, thermoVars>>

(***************************************************************************)
(* Bounds                                                                  *)
(***************************************************************************)
MaxLen == 3          \* longest generated message
MaxFires == 4        \* events fired on the automaton driven event by event
MaxHolds == 2        \* cap of holdsSinceEnd
MaxDelay == 16       \* cap of delaySinceEnd
MaxTicks == 61       \* iterations of the manageMyDisplay loop
MaxPresses == 2      \* button presses in the thread-by-thread thermostat
ThreadTicks == 3     \* iterations of the worker in the thread-by-thread thermostat
SetPointSpan == 1    \* the buttons keep setPoint within DefaultSetPoint +- SetPointSpan

Min(a, b) == IF a < b THEN a ELSE b

(***************************************************************************)
(* CWMachine: messages, code table                                         *)
(***************************************************************************)
SOS == <<"S", "O", "S">>
OK == <<"O", "K">>

\* messages the beacon is run with: the two of the script, every message of
\* up to MaxLen characters over ModelChars (a one-signal and a two-signal
\* character, a blank, a character that is not in the code table, a lower-case
\* letter), and one two-word message
ModelChars == {"E", "A", " ", "?", "s"}
TwoWords == <<"A", "E", " ", "E">>
Messages == UNION {[1..n -> ModelChars] : n \in 0..MaxLen} \cup {SOS, OK, TwoWords}

Whitespace == {" "}

morseDict ==
    [A |-> <<".", "-">>, B |-> <<"-", ".", ".", ".">>, C |-> <<"-", ".", "-", ".">>,
     D |-> <<"-", ".", ".">>, E |-> <<".">>, F |-> <<".", ".", "-", ".">>,
     G |-> <<"-", "-", ".">>, H |-> <<".", ".", ".", ".">>, I |-> <<".", ".">>,
     J |-> <<".", "-", "-", "-">>, K |-> <<"-", ".", "-">>, L |-> <<".", "-", ".", ".">>,
     M |-> <<"-", "-">>, N |-> <<"-", ".">>, O |-> <<"-", "-", "-">>,
     P |-> <<".", "-", "-", ".">>, Q |-> <<"-", "-", ".", "-">>, R |-> <<".", "-", ".">>,
     S |-> <<".", ".", ".">>, T |-> <<"-">>, U |-> <<".", ".", "-">>,
     V |-> <<".", ".", ".", "-">>, W |-> <<".", "-", "-">>, X |-> <<"-", ".", ".", "-">>,
     Y |-> <<"-", ".", "-", "-">>, Z |-> <<"-", "-", ".", ".">>]
    @@ ("0" :> <<"-", "-", "-", "-", "-">>) @@ ("1" :> <<".", "-", "-", "-", "-">>)
    @@ ("2" :> <<".", ".", "-", "-", "-">>) @@ ("3" :> <<".", ".", ".", "-", "-">>)
    @@ ("4" :> <<".", ".", ".", ".", "-">>) @@ ("5" :> <<".", ".", ".", ".", ".">>)
    @@ ("6" :> <<"-", ".", ".", ".", ".">>) @@ ("7" :> <<"-", "-", ".", ".", ".">>)
    @@ ("8" :> <<"-", "-", "-", ".", ".">>) @@ ("9" :> <<"-", "-", "-", "-", ".">>)

\* morseDict.get(char, "")
morseGet(char) == IF char \in DOMAIN morseDict THEN morseDict[char] ELSE <<>>

LowerCase == <<"a", "b", "c", "d", "e", "f", "g", "h", "i", "j", "k", "l", "m",
               "n", "o", "p", "q", "r", "s", "t", "u", "v", "w", "x", "y", "z">>
UpperCase == <<"A", "B", "C", "D", "E", "F", "G", "H", "I", "J", "K", "L", "M",
               "N", "O", "P", "Q", "R", "S", "T", "U", "V", "W", "X", "Y", "Z">>

\* str.upper(), character by character
upper(word) ==
    [i \in 1..Len(word) |->
        IF \E k \in 1..26 : LowerCase[k] = word[i]
        THEN UpperCase[CHOOSE k \in 1..26 : LowerCase[k] = word[i]]
        ELSE word[i]]

\* str.split(): the maximal runs of non-whitespace characters
split(s) ==
    LET RECURSIVE go(_, _, _)
        go(i, cur, acc) ==
            IF i > Len(s)
            THEN IF cur = <<>> THEN acc ELSE Append(acc, cur)
            ELSE IF s[i] \in Whitespace
                 THEN go(i + 1, <<>>, IF cur = <<>> THEN acc ELSE Append(acc, cur))
                 ELSE go(i + 1, Append(cur, s[i]), acc)
    IN go(1, <<>>, <<>>)

(***************************************************************************)
(* CWMachine: states, events, entry and exit actions                       *)
(***************************************************************************)
CWStates == {"off", "dot", "dash", "dotDashPause", "letterPause", "wordPause"}

doDot_noToggle == {<<"off", "dot">>}
doDot == {<<"off", "dot">>, <<"dot", "off">>}
doDash == {<<"off", "dash">>, <<"dash", "off">>}
doDDP == {<<"off", "dotDashPause">>, <<"dot", "dotDashPause">>,
          <<"dash", "dotDashPause">>, <<"dotDashPause", "off">>}
doLP == {<<"off", "letterPause">>, <<"dotDashPause", "letterPause">>,
         <<"letterPause", "off">>}
doWP == {<<"off", "wordPause">>, <<"letterPause", "wordPause">>,
         <<"wordPause", "off">>}
goOff_notFromWordPause == {<<"dot", "off">>, <<"dash", "off">>, <<"dotDashPause", "off">>,
                           <<"letterPause", "off">>}
goOff == {<<"dot", "off">>, <<"dash", "off">>, <<"dotDashPause", "off">>,
          <<"letterPause", "off">>, <<"wordPause", "off">>}

CWEvents == [doDot |-> doDot, doDash |-> doDash, doDDP |-> doDDP,
             doLP |-> doLP, doWP |-> doWP, goOff |-> goOff]

\* StateMachine event call: the target of the transition of this event whose
\* source is s, or "InvalidTransition" (TransitionNotAllowed) when there is none
Target(event, s) ==
    IF \E t \in event : t[1] = s
    THEN (CHOOSE t \in event : t[1] = s)[2]
    ELSE "InvalidTransition"

\* hold of each state's entry action, in quarter time-units
DotHold == 2
DashHold == 6
DDPHold == 1
LPHold == 3
WPHold == 12
HoldOf(s) ==
    CASE s = "dot" -> DotHold
      [] s = "dash" -> DashHold
      [] s = "dotDashPause" -> DDPHold
      [] s = "letterPause" -> LPHold
      [] s = "wordPause" -> WPHold
      [] OTHER -> 0

\* redLight after leaving state s and entering state t
RedAfter_noExit(led, s, t) ==
    IF t = "dot" THEN "on" ELSE led
RedAfter(led, s, t) ==
    LET exited == IF s = "dot" THEN "off" ELSE led
    IN IF t = "dot" THEN "on" ELSE exited
\* blueLight after leaving state s and entering state t
BlueAfter(led, s, t) ==
    LET exited == IF s = "dash" THEN "off" ELSE led
    IN IF t = "dash" THEN "on" ELSE exited

(***************************************************************************)
(* The automaton driven event by event (prog = "fire")                     *)
(***************************************************************************)
InitBeaconVars ==
    /\ message1 \in Messages
    /\ message2 = OK
    /\ activeMessage = message1
    /\ endTransmission = FALSE
    /\ tpc = "while"
    /\ wordList = <<>>
    /\ wi = 1 /\ ci = 1 /\ si = 1
    /\ wordsCounter = 1 /\ wordCounter = 1 /\ morseCounter = 1
    /\ trace = <<>>
    /\ passMessage = <<>>
    /\ passDone = FALSE
    /\ holdsSinceEnd = 0
    /\ delaySinceEnd = 0
    /\ deadTime = "start"

InitFireVars ==
    /\ lastEvent = "none" /\ lastFrom = "none" /\ lastResult = "none" /\ fires = 0

InitCommon ==
    /\ current_state = "off"
    /\ redLight = "off" /\ blueLight = "off"
    /\ screen = <<>>
    /\ cleanups = 0
    /\ mainpc = "running"

NoCall == [state |-> "none", c |-> 0, setPoint |-> 0]
NoWrite == [written |-> <<>>, state |-> "none", c |-> 0, setPoint |-> 0]
DefaultSetPoint == 72

Buttons == {"green", "red", "blue"}
Threads == {"worker"} \cup Buttons

\* the worker at the top of its loop, no callback running, the lock free
InitThreadVars ==
    /\ pc = [t \in Threads |-> IF t = "worker" THEN "w_while" ELSE "idle"]
    /\ ulret = [t \in Threads |-> "none"]
    /\ gfret = [t \in Threads |-> "none"]
    /\ ltemp = [t \in Threads |-> 0]
    /\ reg = [t \in Threads |-> 0]
    /\ done = [b \in Buttons |-> 0]
    /\ sensor_lock = "free"
    /\ wline = <<>>

InitThermoVars ==
    /\ setPoint = DefaultSetPoint
    /\ endDisplay = FALSE
    /\ wpc = "while"
    /\ counter = 1 /\ altCounter = 1
    /\ tick = 0
    /\ shown = <<>>
    /\ emitTicks = <<>>
    /\ ser = NoWrite
    /\ lit = NoCall
    /\ cycleHist = <<"off">>
    /\ cycleErrors = 0
    /\ wSleep = 0 /\ grace = 0
    /\ InitThreadVars

InitFire ==
    /\ prog = "fire"
    /\ InitCommon
    /\ InitFireVars
    /\ InitThermoVars
    /\ InitBeaconVars /\ message1 = SOS

\* one event call on the automaton, with its exit and entry actions
Fire(e) ==
    /\ prog = "fire"
    /\ fires < MaxFires
    /\ LET t == Target(CWEvents[e], current_state) IN
       /\ lastEvent' = e
       /\ lastFrom' = current_state
       /\ fires' = fires + 1
       /\ IF t = "InvalidTransition"
          THEN /\ lastResult' = "InvalidTransition"
               /\ UNCHANGED <<current_state, redLight, blueLight>>
          ELSE /\ lastResult' = "ok"
               /\ current_state' = t
               /\ redLight' = RedAfter(redLight, current_state, t)
               /\ blueLight' = BlueAfter(blueLight, current_state, t)
    /\ UNCHANGED <<prog, screen, cleanups, mainpc, beaconVars, thermoVars>>

FireDot == Fire("doDot")
FireDash == Fire("doDash")
FireDDP == Fire("doDDP")
FireLP == Fire("doLP")
FireWP == Fire("doWP")
FireOff == Fire("goOff")

NextFire == FireDot \/ FireDash \/ FireDDP \/ FireLP \/ FireWP \/ FireOff

SpecFire == InitFire /\ [][NextFire]_vars

(***************************************************************************)
(* The beacon script (prog = "beacon"): the transmit thread                *)
(***************************************************************************)
InitBeacon ==
    /\ prog = "beacon"
    /\ InitCommon
    /\ InitBeaconVars
    /\ InitFireVars
    /\ InitThermoVars

\* locals of the loops of transmit, read off the loop indices
word == wordList[wi]
lenWords == Len(wordList)
lenWord == Len(word)
char == upper(word)[ci]
morse == morseGet(char)
lenMorse == Len(morse)
symbol == morse[si]

txLoop == <<wordList, wi, ci, si, wordsCounter, wordCounter, morseCounter>>
txHist == <<trace, passMessage, passDone, holdsSinceEnd, delaySinceEnd, deadTime>>

Signals == {"dot", "dash"}
Gaps == {"dotDashPause", "letterPause", "wordPause"}

\* deadTime after the automaton goes to state t: "signal" in a signal state,
\* "off" once it has returned to off, "gap" once it has held a gap state;
\* "backToBack" in a signal state entered with no gap held since the signal
\* state before it, "noOff" in a gap state entered straight from a signal state
DeadTimeAfter(d, t) ==
    IF t \in Signals
    THEN IF d \in {"signal", "backToBack", "off"} THEN "backToBack" ELSE "signal"
    ELSE IF t \in Gaps
         THEN IF d \in {"signal", "backToBack"} THEN "noOff" ELSE "gap"
         ELSE IF d \in {"signal", "backToBack"} THEN "off" ELSE d
txShared == <<message1, message2, activeMessage, endTransmission>>
txOther == <<prog, mainpc, fireVars, thermoVars>>

\* an event call made by the transmit thread: the exit action of the source,
\* the change of state, the entry action of the target up to the start of its
\* hold; an event with no transition from the current state raises and ends
\* the thread
Call(event, holdpc) ==
    LET t == Target(event, current_state) IN
    IF t = "InvalidTransition"
    THEN /\ tpc' = "raised"
         /\ UNCHANGED <<current_state, redLight, blueLight, txHist>>
    ELSE /\ current_state' = t
         /\ redLight' = RedAfter(redLight, current_state, t)
         /\ blueLight' = BlueAfter(blueLight, current_state, t)
         /\ tpc' = holdpc
         /\ trace' = IF t = "off" THEN trace ELSE Append(trace, t)
         /\ holdsSinceEnd' = IF endTransmission /\ t # "off"
                             THEN Min(holdsSinceEnd + 1, MaxHolds) ELSE holdsSinceEnd
         /\ delaySinceEnd' = IF endTransmission
                             THEN Min(delaySinceEnd + HoldOf(t), MaxDelay) ELSE delaySinceEnd
         /\ deadTime' = DeadTimeAfter(deadTime, t)
         /\ UNCHANGED <<passMessage, passDone>>

\* if self.current_state != self.off: self.goOff()
ReturnToOff_skip(nextpc) ==
    /\ tpc' = nextpc
    /\ UNCHANGED <<current_state, redLight, blueLight, txHist>>
ReturnToOff(nextpc) ==
    IF current_state # "off"
    THEN Call(goOff, nextpc)
    ELSE /\ tpc' = nextpc
         /\ UNCHANGED <<current_state, redLight, blueLight, txHist>>

\* while not self.endTransmission
T_While ==
    /\ prog = "beacon" /\ tpc = "while"
    /\ tpc' = IF endTransmission THEN "cleanup" ELSE "render"
    /\ UNCHANGED <<current_state, redLight, blueLight, screen, cleanups,
                   txLoop, txHist, txShared, txOther>>

\* self.screen.updateScreen(f"Sending:\n{self.activeMessage}")
T_Render ==
    /\ prog = "beacon" /\ tpc = "render"
    /\ screen' = <<"Sending:", activeMessage>>
    /\ tpc' = "split"
    /\ UNCHANGED <<current_state, redLight, blueLight, cleanups,
                   txLoop, txHist, txShared, txOther>>

\* wordList = self.activeMessage.split(); wordsCounter = 1
T_Split ==
    /\ prog = "beacon" /\ tpc = "split"
    /\ wordList' = split(activeMessage)
    /\ wordsCounter' = 1
    /\ wi' = 1
    /\ passMessage' = activeMessage
    /\ trace' = <<>>
    /\ passDone' = FALSE
    /\ tpc' = "word"
    /\ UNCHANGED <<current_state, redLight, blueLight, screen, cleanups,
                   ci, si, wordCounter, morseCounter, holdsSinceEnd, delaySinceEnd,
                   deadTime, txShared, txOther>>

\* for word in wordList: wordCounter = 1
T_ForWord ==
    /\ prog = "beacon" /\ tpc = "word"
    /\ IF wi <= lenWords
       THEN /\ wordCounter' = 1
            /\ ci' = 1
            /\ tpc' = "char"
            /\ UNCHANGED passDone
       ELSE /\ passDone' = TRUE
            /\ tpc' = "while"
            /\ UNCHANGED <<wordCounter, ci>>
    /\ UNCHANGED <<current_state, redLight, blueLight, screen, cleanups,
                   wordList, wi, si, wordsCounter, morseCounter,
                   trace, passMessage, holdsSinceEnd, delaySinceEnd, deadTime,
                   txShared, txOther>>

\* for char in word.upper(): morse = ...; morseCounter = 1
\* after the last character: if wordsCounter < lenWords
T_ForChar ==
    /\ prog = "beacon" /\ tpc = "char"
    /\ IF ci <= Len(upper(word))
       THEN /\ morseCounter' = 1
            /\ si' = 1
            /\ tpc' = "symbol"
            /\ UNCHANGED wi
       ELSE IF wordsCounter < lenWords
            THEN /\ tpc' = "wp_off"
                 /\ UNCHANGED <<morseCounter, si, wi>>
            ELSE /\ wi' = wi + 1
                 /\ tpc' = "word"
                 /\ UNCHANGED <<morseCounter, si>>
    /\ UNCHANGED <<current_state, redLight, blueLight, screen, cleanups,
                   wordList, ci, wordsCounter, wordCounter, txHist, txShared, txOther>>

\* for symbol in morse
\* after the last symbol: if wordCounter < lenWord
T_ForSymbol ==
    /\ prog = "beacon" /\ tpc = "symbol"
    /\ IF si <= lenMorse
       THEN /\ tpc' = "sym_off"
            /\ UNCHANGED ci
       ELSE IF wordCounter < lenWord
            THEN /\ tpc' = "lp_off"
                 /\ UNCHANGED ci
            ELSE /\ ci' = ci + 1
                 /\ tpc' = "char"
    /\ UNCHANGED <<current_state, redLight, blueLight, screen, cleanups,
                   wordList, wi, si, wordsCounter, wordCounter, morseCounter,
                   txHist, txShared, txOther>>

\* the four "always return to off" checks
T_ReturnToOff ==
    /\ prog = "beacon"
    /\ tpc \in {"sym_off", "ddp_off", "lp_off", "wp_off"}
    /\ ReturnToOff(CASE tpc = "sym_off" -> "sym_fire"
                     [] tpc = "ddp_off" -> "ddp_fire"
                     [] tpc = "lp_off" -> "lp_fire"
                     [] tpc = "wp_off" -> "wp_fire")
    /\ UNCHANGED <<screen, cleanups, txLoop, txShared, txOther>>

\* if symbol == '.': self.doDot() elif symbol == '-': self.doDash()
T_Signal ==
    /\ prog = "beacon" /\ tpc = "sym_fire"
    /\ IF symbol = "." THEN Call(doDot, "sym_hold")
       ELSE IF symbol = "-" THEN Call(doDash, "sym_hold")
       ELSE /\ tpc' = "sym_hold"
            /\ UNCHANGED <<current_state, redLight, blueLight, txHist>>
    /\ UNCHANGED <<screen, cleanups, txLoop, txShared, txOther>>

T_SignalDone_gapAfterLast ==
    /\ prog = "beacon" /\ tpc = "sym_hold"
    /\ IF morseCounter <= lenMorse
       THEN /\ tpc' = "ddp_off"
            /\ UNCHANGED si
       ELSE /\ si' = si + 1
            /\ tpc' = "symbol"
    /\ UNCHANGED <<current_state, redLight, blueLight, screen, cleanups,
                   wordList, wi, ci, wordsCounter, wordCounter, morseCounter,
                   txHist, txShared, txOther>>

\* the hold of the signal ends; if morseCounter < lenMorse
T_SignalDone ==
    /\ prog = "beacon" /\ tpc = "sym_hold"
    /\ IF morseCounter < lenMorse
       THEN /\ tpc' = "ddp_off"
            /\ UNCHANGED si
       ELSE /\ si' = si + 1
            /\ tpc' = "symbol"
    /\ UNCHANGED <<current_state, redLight, blueLight, screen, cleanups,
                   wordList, wi, ci, wordsCounter, wordCounter, morseCounter,
                   txHist, txShared, txOther>>

\* self.doDDP()
T_DDP ==
    /\ prog = "beacon" /\ tpc = "ddp_fire"
    /\ Call(doDDP, "ddp_hold")
    /\ UNCHANGED <<screen, cleanups, txLoop, txShared, txOther>>

\* the hold ends; morseCounter += 1
T_DDPDone ==
    /\ prog = "beacon" /\ tpc = "ddp_hold"
    /\ morseCounter' = morseCounter + 1
    /\ si' = si + 1
    /\ tpc' = "symbol"
    /\ UNCHANGED <<current_state, redLight, blueLight, screen, cleanups,
                   wordList, wi, ci, wordsCounter, wordCounter,
                   txHist, txShared, txOther>>

\* self.doLP()
T_LP ==
    /\ prog = "beacon" /\ tpc = "lp_fire"
    /\ Call(doLP, "lp_hold")
    /\ UNCHANGED <<screen, cleanups, txLoop, txShared, txOther>>

\* the hold ends; wordCounter += 1
T_LPDone ==
    /\ prog = "beacon" /\ tpc = "lp_hold"
    /\ wordCounter' = wordCounter + 1
    /\ ci' = ci + 1
    /\ tpc' = "char"
    /\ UNCHANGED <<current_state, redLight, blueLight, screen, cleanups,
                   wordList, wi, si, wordsCounter, morseCounter,
                   txHist, txShared, txOther>>

\* self.doWP()
T_WP ==
    /\ prog = "beacon" /\ tpc = "wp_fire"
    /\ Call(doWP, "wp_hold")
    /\ UNCHANGED <<screen, cleanups, txLoop, txShared, txOther>>

\* the hold ends; wordsCounter += 1
T_WPDone ==
    /\ prog = "beacon" /\ tpc = "wp_hold"
    /\ wordsCounter' = wordsCounter + 1
    /\ wi' = wi + 1
    /\ tpc' = "word"
    /\ UNCHANGED <<current_state, redLight, blueLight, screen, cleanups,
                   wordList, ci, si, wordCounter, morseCounter,
                   txHist, txShared, txOther>>

\* self.screen.cleanupDisplay()
T_Cleanup ==
    /\ prog = "beacon" /\ tpc = "cleanup"
    /\ screen' = <<>>
    /\ cleanups' = cleanups + 1
    /\ tpc' = "done"
    /\ UNCHANGED <<current_state, redLight, blueLight,
                   txLoop, txHist, txShared, txOther>>

\* greenButton.when_pressed: processButton -> toggleMessage
processButton_resplit ==
    /\ prog = "beacon" /\ tpc \notin {"done", "raised"}
    /\ activeMessage' = IF activeMessage = message1 THEN message2 ELSE message1
    /\ wordList' = split(activeMessage')
    /\ UNCHANGED <<commonVars, message1, message2, endTransmission, tpc,
                   wi, ci, si, wordsCounter, wordCounter, morseCounter,
                   txHist, fireVars, thermoVars>>
processButton ==
    /\ prog = "beacon" /\ tpc \notin {"done", "raised"}
    /\ activeMessage' = IF activeMessage = message1 THEN message2 ELSE message1
    /\ UNCHANGED <<commonVars, message1, message2, endTransmission, tpc,
                   txLoop, txHist, fireVars, thermoVars>>

\* KeyboardInterrupt in the main loop: cwMachine.endTransmission = True; the
\* main thread then sleeps and ends, the interpreter waits for the transmit
\* thread (not a daemon)
B_Interrupt ==
    /\ prog = "beacon" /\ mainpc = "running"
    /\ endTransmission' = TRUE
    /\ mainpc' = "grace"
    /\ UNCHANGED <<prog, current_state, redLight, blueLight, screen, cleanups,
                   message1, message2, activeMessage, tpc, txLoop, txHist,
                   fireVars, thermoVars>>

NextBeacon ==
    \/ T_While \/ T_Render \/ T_Split \/ T_ForWord \/ T_ForChar \/ T_ForSymbol
    \/ T_ReturnToOff \/ T_Signal \/ T_SignalDone \/ T_DDP \/ T_DDPDone
    \/ T_LP \/ T_LPDone \/ T_WP \/ T_WPDone \/ T_Cleanup
    \/ processButton \/ B_Interrupt

SpecBeacon == InitBeacon /\ [][NextBeacon]_vars

(***************************************************************************)
(* The thermostat script (prog = "thermostat")                             *)
(***************************************************************************)
\* thSensor.temperature, in tenths of a degree Celsius
Readings == {222, 228}

\* the values a read of the sensor can return; a step that does not read it
\* gets the one value 0
Sensor(read) == IF read THEN Readings ELSE {0}

\* getFahrenheit: ((9/5)*c) + 32, in hundredths of a degree Fahrenheit
getFahrenheit(c) == 18 * c + 3200

\* math.floor of a value given in hundredths
floor(h) == h \div 100

cycle_coolToHeat == {<<"off", "heat">>, <<"heat", "cool">>, <<"cool", "heat">>}
cycle == {<<"off", "heat">>, <<"heat", "cool">>, <<"cool", "off">>}

updateLights_pulseAtSetPoint(st, temp, sp) ==
    LET dark == [red |-> "off", blue |-> "off"] IN
    IF st = "heat"
    THEN [dark EXCEPT !.red = IF temp <= sp THEN "pulse" ELSE "on"]
    ELSE IF st = "cool"
         THEN [dark EXCEPT !.blue = IF temp >= sp THEN "pulse" ELSE "on"]
         ELSE dark

\* updateLights: both lights off, then the light of the current state
updateLights(st, temp, sp) ==
    LET dark == [red |-> "off", blue |-> "off"] IN
    IF st = "heat"
    THEN [dark EXCEPT !.red = IF temp < sp THEN "pulse" ELSE "on"]
    ELSE IF st = "cool"
         THEN [dark EXCEPT !.blue = IF temp > sp THEN "pulse" ELSE "on"]
         ELSE dark

\* str.title() of a state id
title(id) ==
    CASE id = "off" -> "Off" [] id = "heat" -> "Heat" [] id = "cool" -> "Cool"

\* setupSerialOutput, plus the newline added by the caller
setupSerialOutput(st, temp, sp) ==
    st \o "," \o ToString(temp) \o "," \o ToString(sp) \o "\n"

\* if counter % 30 == 0
serialDue(n) == n % 30 = 0

counterAfter_resetToZero(n) == IF serialDue(n) THEN 0 ELSE n + 1
\* counter = 1 after a write, else counter += 1
counterAfter(n) == IF serialDue(n) THEN 1 ELSE n + 1

InitThermo ==
    /\ prog = "thermostat"
    /\ InitCommon
    /\ InitThermoVars
    /\ InitFireVars
    /\ InitBeaconVars /\ message1 = SOS

thButtonFrame == <<prog, screen, cleanups, mainpc, beaconVars, fireVars, endDisplay,
                   wpc, counter, altCounter, tick, shown, emitTicks, wSleep, grace,
                   threadVars>>

\* the last (up to 4) entries of the states seen around cycle events
Last4(h) == IF Len(h) > 4 THEN SubSeq(h, Len(h) - 3, Len(h)) ELSE h

\* greenButton: self.cycle() (exit action of the source, then entry action of
\* the target, which calls updateLights), then self.updateLights(): the lights
\* are left as the last call sets them, from its own read of the sensor
processTempStateButton ==
    /\ prog = "thermostat" /\ mainpc # "exited"
    /\ \E c2 \in Readings :
        LET t == Target(cycle, current_state) IN
        IF t = "InvalidTransition"
        THEN /\ cycleErrors' = cycleErrors + 1
             /\ lit' = NoCall
             /\ UNCHANGED <<current_state, redLight, blueLight, cycleHist>>
        ELSE LET final == updateLights(t, floor(getFahrenheit(c2)), setPoint)
             IN /\ current_state' = t
                /\ redLight' = final.red
                /\ blueLight' = final.blue
                /\ lit' = [state |-> t, c |-> c2, setPoint |-> setPoint]
                /\ cycleHist' = Last4(Append(cycleHist, t))
                /\ UNCHANGED cycleErrors
    /\ ser' = NoWrite
    /\ UNCHANGED <<thButtonFrame, setPoint>>

\* redButton: self.setPoint += 1; self.updateLights()
processTempIncButton ==
    /\ prog = "thermostat" /\ mainpc # "exited"
    /\ setPoint < DefaultSetPoint + SetPointSpan
    /\ \E c \in Readings :
        LET final == updateLights(current_state, floor(getFahrenheit(c)), setPoint + 1)
        IN /\ setPoint' = setPoint + 1
           /\ redLight' = final.red
           /\ blueLight' = final.blue
           /\ lit' = [state |-> current_state, c |-> c, setPoint |-> setPoint + 1]
    /\ ser' = NoWrite
    /\ UNCHANGED <<thButtonFrame, current_state, cycleHist, cycleErrors>>

\* blueButton: self.setPoint -= 1; self.updateLights()
processTempDecButton ==
    /\ prog = "thermostat" /\ mainpc # "exited"
    /\ setPoint > DefaultSetPoint - SetPointSpan
    /\ \E c \in Readings :
        LET final == updateLights(current_state, floor(getFahrenheit(c)), setPoint - 1)
        IN /\ setPoint' = setPoint - 1
           /\ redLight' = final.red
           /\ blueLight' = final.blue
           /\ lit' = [state |-> current_state, c |-> c, setPoint |-> setPoint - 1]
    /\ ser' = NoWrite
    /\ UNCHANGED <<thButtonFrame, current_state, cycleHist, cycleErrors>>

thWorkerFrame == <<prog, cleanups, mainpc, beaconVars, fireVars, current_state,
                   setPoint, endDisplay, cycleHist, cycleErrors, grace, threadVars>>

\* one iteration of the loop of manageMyDisplay, up to its sleep(1)
W_Tick ==
    /\ prog = "thermostat" /\ wpc = "while"
    /\ ~endDisplay
    /\ tick < MaxTicks
    /\ LET showTemp == altCounter < 6
           reset == ~showTemp /\ altCounter >= 11
           emit == serialDue(counter)
       IN
       \E c1 \in Sensor(showTemp), c2 \in Sensor(reset), c3 \in Sensor(emit) :
        LET
            lcd_line_2 == IF showTemp
                          THEN <<"Temp:", floor(getFahrenheit(c1)), "F">>
                          ELSE <<title(current_state), ":", setPoint, "F">>
            lights == updateLights(current_state, floor(getFahrenheit(c2)), setPoint)
        IN /\ screen' = <<"now", lcd_line_2>>
           /\ shown' = Append(shown, IF showTemp THEN "temp" ELSE "mode")
           /\ redLight' = IF reset THEN lights.red ELSE redLight
           /\ blueLight' = IF reset THEN lights.blue ELSE blueLight
           /\ lit' = IF reset
                     THEN [state |-> current_state, c |-> c2, setPoint |-> setPoint]
                     ELSE NoCall
           /\ altCounter' = (IF reset THEN 1 ELSE altCounter) + 1
           /\ IF emit
              THEN /\ ser' = [written |-> <<setupSerialOutput(current_state,
                                               floor(getFahrenheit(c3)), setPoint)>>,
                              state |-> current_state, c |-> c3, setPoint |-> setPoint]
                   /\ emitTicks' = Append(emitTicks, tick + 1)
              ELSE /\ ser' = NoWrite
                   /\ UNCHANGED emitTicks
           /\ counter' = counterAfter(counter)
    /\ tick' = tick + 1
    /\ wpc' = "sleep"
    /\ wSleep' = 0
    /\ UNCHANGED thWorkerFrame

\* sleep(1) returns
W_Wake ==
    /\ prog = "thermostat" /\ wpc = "sleep"
    /\ wSleep = 0
    /\ wpc' = "while"
    /\ lit' = NoCall /\ ser' = NoWrite
    /\ UNCHANGED <<thWorkerFrame, screen, redLight, blueLight, counter, altCounter,
                   tick, shown, emitTicks, wSleep>>

\* while not self.endDisplay: the flag is seen
W_Exit ==
    /\ prog = "thermostat" /\ wpc = "while"
    /\ endDisplay
    /\ wpc' = "cleanup"
    /\ lit' = NoCall /\ ser' = NoWrite
    /\ UNCHANGED <<thWorkerFrame, screen, redLight, blueLight, counter, altCounter,
                   tick, shown, emitTicks, wSleep>>

\* screen.cleanupDisplay()
W_Cleanup ==
    /\ prog = "thermostat" /\ wpc = "cleanup"
    /\ screen' = <<>>
    /\ cleanups' = cleanups + 1
    /\ wpc' = "done"
    /\ lit' = NoCall /\ ser' = NoWrite
    /\ UNCHANGED <<prog, mainpc, beaconVars, fireVars, current_state, setPoint,
                   endDisplay, cycleHist, cycleErrors, grace, redLight, blueLight,
                   counter, altCounter, tick, shown, emitTicks, wSleep, threadVars>>

\* quarter time-units of sleep(1)
SleepQ == 4

\* KeyboardInterrupt in the main loop: tsm.endDisplay = True, then sleep(1).
\* A worker that is asleep has between one quarter and all of its sleep left
\* (all of it when the flag is set while the body of the tick is running, just
\* before the sleep starts).
Th_Interrupt ==
    /\ prog = "thermostat" /\ mainpc = "running"
    /\ endDisplay' = TRUE
    /\ mainpc' = "grace"
    /\ grace' = SleepQ
    /\ IF wpc = "sleep"
       THEN \E r \in 1..SleepQ : wSleep' = r
       ELSE UNCHANGED wSleep
    /\ lit' = NoCall /\ ser' = NoWrite
    /\ UNCHANGED <<prog, current_state, redLight, blueLight, screen, cleanups,
                   beaconVars, fireVars, setPoint, wpc, counter, altCounter, tick,
                   shown, emitTicks, cycleHist, cycleErrors, threadVars>>

\* a quarter time-unit passes for every thread that is asleep
Advance ==
    /\ prog = "thermostat" /\ mainpc = "grace"
    /\ grace > 0
    /\ wpc = "sleep" => wSleep > 0
    /\ wpc \in {"sleep", "done"}
    /\ grace' = grace - 1
    /\ wSleep' = IF wpc = "sleep" THEN wSleep - 1 ELSE wSleep
    /\ lit' = NoCall /\ ser' = NoWrite
    /\ UNCHANGED <<commonVars, beaconVars, fireVars, setPoint, endDisplay, wpc,
                   counter, altCounter, tick, shown, emitTicks, cycleHist, cycleErrors,
                   threadVars>>

\* the main thread's sleep(1) returns and the script ends: the worker is a
\* daemon thread, it ends with the process wherever it is
Th_MainExit ==
    /\ prog = "thermostat" /\ mainpc = "grace"
    /\ grace = 0
    /\ mainpc' = "exited"
    /\ wpc' = IF wpc = "done" THEN "done" ELSE "killed"
    /\ lit' = NoCall /\ ser' = NoWrite
    /\ UNCHANGED <<prog, current_state, redLight, blueLight, screen, cleanups,
                   beaconVars, fireVars, setPoint, endDisplay, counter, altCounter,
                   tick, shown, emitTicks, cycleHist, cycleErrors, wSleep, grace,
                   threadVars>>

NextThermo ==
    \/ processTempStateButton \/ processTempIncButton \/ processTempDecButton
    \/ W_Tick \/ W_Wake \/ W_Exit \/ W_Cleanup
    \/ Th_Interrupt \/ Advance \/ Th_MainExit

SpecThermo == InitThermo /\ [][NextThermo]_vars

(***************************************************************************)
(* Thermostat, thread by thread: the worker and the three button callbacks *)
(* take their steps one shared read or write at a time                     *)
(***************************************************************************)

\* the reading of the sensor while the threads interleave
ThreadReadings == {222}

\* the worker about to start its 30th iteration, nothing pressed so far
InitThreads ==
    /\ prog = "threads"
    /\ current_state = "off"
    /\ redLight = "off" /\ blueLight = "off"
    /\ cleanups = 0
    /\ mainpc = "running"
    /\ InitFireVars
    /\ InitBeaconVars /\ message1 = SOS
    /\ setPoint = DefaultSetPoint
    /\ endDisplay = FALSE
    /\ wpc = "while"
    /\ counter = 30 /\ altCounter = 10
    /\ tick = 29
    /\ screen = <<"now", <<"Off", ":", DefaultSetPoint, "F">>>>
    /\ shown = <<>>
    /\ emitTicks = <<>>
    /\ ser = NoWrite
    /\ lit = NoCall
    /\ cycleHist = <<"off">>
    /\ cycleErrors = 0
    /\ wSleep = 0 /\ grace = 0
    /\ InitThreadVars

thrFixed == <<prog, cleanups, mainpc, beaconVars, fireVars, endDisplay, wpc, shown,
              emitTicks, lit, cycleHist, cycleErrors, wSleep, grace>>
thrLeds  == <<redLight, blueLight>>
thrState == <<current_state, setPoint>>
thrLoop  == <<screen, counter, altCounter, tick, ser, wline>>
thrCalls == <<ulret, gfret>>
thrLocal == <<ltemp, reg, done>>

Goto(t, l) == pc' = [pc EXCEPT ![t] = l]

\* a call of self.getFahrenheit() that returns to r
CallGetFahrenheit(t, r) ==
    /\ Goto(t, "gf_acquire")
    /\ gfret' = [gfret EXCEPT ![t] = r]
    /\ UNCHANGED ulret

\* a call of self.updateLights() that returns to r; its first statement calls
\* getFahrenheit
CallUpdateLights(t, r) ==
    /\ Goto(t, "gf_acquire")
    /\ gfret' = [gfret EXCEPT ![t] = "ul_lightsoff"]
    /\ ulret' = [ulret EXCEPT ![t] = r]

\* with sensor_lock: the thread waits until the lock is free and takes it
\* (pc "gf_read": inside the with block, the sensor not yet read)
GF_Acquire_noWait(t) ==
    /\ prog = "threads" /\ pc[t] = "gf_acquire"
    /\ sensor_lock' = t
    /\ Goto(t, "gf_read")
    /\ UNCHANGED <<thrFixed, thrLeds, thrState, thrLoop, thrCalls, thrLocal>>
GF_Acquire(t) ==
    /\ prog = "threads" /\ pc[t] = "gf_acquire"
    /\ sensor_lock = "free"
    /\ sensor_lock' = t
    /\ Goto(t, "gf_read")
    /\ UNCHANGED <<thrFixed, thrLeds, thrState, thrLoop, thrCalls, thrLocal>>

\* c = thSensor.temperature; the end of the with block releases the lock;
\* return ((9/5)*c) + 32, of which every caller takes the floor
GF_Read(t) ==
    /\ prog = "threads" /\ pc[t] = "gf_read"
    /\ sensor_lock' = "free"
    /\ \E c \in ThreadReadings :
           ltemp' = [ltemp EXCEPT ![t] = floor(getFahrenheit(c))]
    /\ Goto(t, gfret[t])
    /\ gfret' = [gfret EXCEPT ![t] = "none"]
    /\ UNCHANGED <<thrFixed, thrLeds, thrState, thrLoop, ulret, reg, done>>

\* updateLights returns to its caller; its local temp is gone
\* (from the last call of a callback the callback returns too)
ULReturn(t) ==
    /\ Goto(t, ulret[t])
    /\ ulret' = [ulret EXCEPT ![t] = "none"]
    /\ ltemp' = [ltemp EXCEPT ![t] = 0]
    /\ reg' = [reg EXCEPT ![t] = 0]
    /\ done' = IF ulret[t] = "idle" THEN [done EXCEPT ![t] = @ + 1] ELSE done
    /\ UNCHANGED gfret

\* updateLights: redLight.off(); blueLight.off()
UL_LightsOff(t) ==
    /\ prog = "threads" /\ pc[t] = "ul_lightsoff"
    /\ redLight' = "off"
    /\ blueLight' = "off"
    /\ Goto(t, "ul_isheat")
    /\ UNCHANGED <<thrFixed, thrState, thrLoop, thrCalls, thrLocal, sensor_lock>>

\* updateLights: if self.current_state.id == 'heat'
UL_IsHeat(t) ==
    /\ prog = "threads" /\ pc[t] = "ul_isheat"
    /\ Goto(t, IF current_state = "heat" THEN "ul_heat" ELSE "ul_iscool")
    /\ UNCHANGED <<thrFixed, thrLeds, thrState, thrLoop, thrCalls, thrLocal,
                   sensor_lock>>

\* updateLights: if temp < self.setPoint: redLight.pulse() else: redLight.on()
UL_Heat(t) ==
    /\ prog = "threads" /\ pc[t] = "ul_heat"
    /\ redLight' = updateLights("heat", ltemp[t], setPoint).red
    /\ ULReturn(t)
    /\ UNCHANGED <<thrFixed, blueLight, thrState, thrLoop, sensor_lock>>

\* updateLights: elif self.current_state.id == 'cool'
UL_IsCool(t) ==
    /\ prog = "threads" /\ pc[t] = "ul_iscool"
    /\ IF current_state = "cool"
       THEN Goto(t, "ul_cool") /\ UNCHANGED <<thrCalls, thrLocal>>
       ELSE ULReturn(t)
    /\ UNCHANGED <<thrFixed, thrLeds, thrState, thrLoop, sensor_lock>>

\* updateLights: if temp > self.setPoint: blueLight.pulse() else: blueLight.on()
UL_Cool(t) ==
    /\ prog = "threads" /\ pc[t] = "ul_cool"
    /\ blueLight' = updateLights("cool", ltemp[t], setPoint).blue
    /\ ULReturn(t)
    /\ UNCHANGED <<thrFixed, redLight, thrState, thrLoop, sensor_lock>>

\* callbacks begun so far
Started == done["green"] + done["red"] + done["blue"]
           + Cardinality({b \in Buttons : pc[b] # "idle"})

\* a button is pressed: its callback starts on the callback thread
Press(b) ==
    /\ prog = "threads" /\ pc[b] = "idle"
    /\ Started < MaxPresses
    /\ Goto(b, CASE b = "green" -> "g_exit"
                 [] b = "red" -> "inc_read"
                 [] b = "blue" -> "dec_read")
    /\ UNCHANGED <<thrFixed, thrLeds, thrState, thrLoop, thrCalls, thrLocal,
                   sensor_lock>>

\* self.cycle(): the exit action of the source state
G_Exit ==
    /\ prog = "threads" /\ pc["green"] = "g_exit"
    /\ redLight' = IF current_state = "heat" THEN "off" ELSE redLight
    /\ blueLight' = IF current_state = "cool" THEN "off" ELSE blueLight
    /\ Goto("green", "g_set")
    /\ UNCHANGED <<thrFixed, thrState, thrLoop, thrCalls, thrLocal, sensor_lock>>

\* self.cycle(): the state changes and the entry action of the target state
\* calls updateLights
G_Set ==
    /\ prog = "threads" /\ pc["green"] = "g_set"
    /\ \E tr \in cycle : tr[1] = current_state /\ current_state' = tr[2]
    /\ CallUpdateLights("green", "g_second")
    /\ UNCHANGED <<thrFixed, thrLeds, setPoint, thrLoop, thrLocal, sensor_lock>>

\* processTempStateButton: self.updateLights() after self.cycle()
G_Second ==
    /\ prog = "threads" /\ pc["green"] = "g_second"
    /\ CallUpdateLights("green", "idle")
    /\ UNCHANGED <<thrFixed, thrLeds, thrState, thrLoop, thrLocal, sensor_lock>>

\* self.setPoint += 1 / -= 1: the read of self.setPoint
SP_Read(b) ==
    /\ prog = "threads" /\ b \in {"red", "blue"}
    /\ pc[b] = IF b = "red" THEN "inc_read" ELSE "dec_read"
    /\ reg' = [reg EXCEPT ![b] = setPoint]
    /\ Goto(b, IF b = "red" THEN "inc_write" ELSE "dec_write")
    /\ UNCHANGED <<thrFixed, thrLeds, thrState, thrLoop, thrCalls, ltemp, done,
                   sensor_lock>>

\* self.setPoint += 1: the store, then self.updateLights()
Inc_Write ==
    /\ prog = "threads" /\ pc["red"] = "inc_write"
    /\ setPoint' = reg["red"] + 1
    /\ CallUpdateLights("red", "idle")
    /\ UNCHANGED <<thrFixed, thrLeds, current_state, thrLoop, thrLocal, sensor_lock>>

\* self.setPoint -= 1: the store, then self.updateLights()
Dec_Write ==
    /\ prog = "threads" /\ pc["blue"] = "dec_write"
    /\ setPoint' = reg["blue"] - 1
    /\ CallUpdateLights("blue", "idle")
    /\ UNCHANGED <<thrFixed, thrLeds, current_state, thrLoop, thrLocal, sensor_lock>>

\* the tick at which the thread-by-thread worker starts
FirstTick == 29

\* manageMyDisplay: while not self.endDisplay, and the branch on altCounter
Wk_While ==
    /\ prog = "threads" /\ pc["worker"] = "w_while"
    /\ tick < FirstTick + ThreadTicks
    /\ IF altCounter < 6
       THEN /\ CallGetFahrenheit("worker", "w_temp")
            /\ UNCHANGED wline
       ELSE /\ wline' = <<title(current_state), ":", setPoint, "F">>
            /\ IF altCounter >= 11
               THEN CallUpdateLights("worker", "w_reset")
               ELSE Goto("worker", "w_screen") /\ UNCHANGED thrCalls
    /\ UNCHANGED <<thrFixed, thrLeds, thrState, screen, counter, altCounter, tick,
                   ser, thrLocal, sensor_lock>>

\* lcd_line_2 = f"Temp:{temp}F"
Wk_Temp ==
    /\ prog = "threads" /\ pc["worker"] = "w_temp"
    /\ wline' = <<"Temp:", ltemp["worker"], "F">>
    /\ ltemp' = [ltemp EXCEPT !["worker"] = 0]
    /\ Goto("worker", "w_screen")
    /\ UNCHANGED <<thrFixed, thrLeds, thrState, screen, counter, altCounter, tick,
                   ser, thrCalls, reg, done, sensor_lock>>

\* altCounter = 1 after the periodic updateLights
Wk_Reset ==
    /\ prog = "threads" /\ pc["worker"] = "w_reset"
    /\ altCounter' = 1
    /\ Goto("worker", "w_screen")
    /\ UNCHANGED <<thrFixed, thrLeds, thrState, screen, counter, tick, ser, wline,
                   thrCalls, thrLocal, sensor_lock>>

\* screen.updateScreen(...); altCounter += 1
Wk_Screen ==
    /\ prog = "threads" /\ pc["worker"] = "w_screen"
    /\ screen' = <<"now", wline>>
    /\ wline' = <<>>
    /\ altCounter' = altCounter + 1
    /\ Goto("worker", "w_serial")
    /\ UNCHANGED <<thrFixed, thrLeds, thrState, counter, tick, ser,
                   thrCalls, thrLocal, sensor_lock>>

\* if counter % 30 == 0: setupSerialOutput reads the sensor; else counter += 1
Wk_Serial ==
    /\ prog = "threads" /\ pc["worker"] = "w_serial"
    /\ IF serialDue(counter)
       THEN /\ CallGetFahrenheit("worker", "w_write")
            /\ UNCHANGED counter
       ELSE /\ counter' = counterAfter(counter)
            /\ Goto("worker", "w_sleep")
            /\ UNCHANGED thrCalls
    /\ UNCHANGED <<thrFixed, thrLeds, thrState, screen, altCounter, tick, ser,
                   wline, thrLocal, sensor_lock>>

\* ser.write(...); counter = 1
Wk_Write ==
    /\ prog = "threads" /\ pc["worker"] = "w_write"
    /\ ser' = [written |-> <<setupSerialOutput(current_state, ltemp["worker"],
                                               setPoint)>>,
               state |-> current_state, c |-> 0, setPoint |-> setPoint]
    /\ counter' = counterAfter(counter)
    /\ ltemp' = [ltemp EXCEPT !["worker"] = 0]
    /\ Goto("worker", "w_sleep")
    /\ UNCHANGED <<thrFixed, thrLeds, thrState, screen, altCounter, tick, wline,
                   thrCalls, reg, done, sensor_lock>>

\* sleep(1)
Wk_Sleep ==
    /\ prog = "threads" /\ pc["worker"] = "w_sleep"
    /\ tick' = tick + 1
    /\ Goto("worker", "w_while")
    /\ UNCHANGED <<thrFixed, thrLeds, thrState, screen, counter, altCounter, ser,
                   wline, thrCalls, thrLocal, sensor_lock>>

NextThreads ==
    \/ \E t \in Threads : GF_Acquire(t)
    \/ \E t \in Threads : GF_Read(t)
    \/ \E t \in Threads : UL_LightsOff(t)
    \/ \E t \in Threads : UL_IsHeat(t)
    \/ \E t \in Threads : UL_Heat(t)
    \/ \E t \in Threads : UL_IsCool(t)
    \/ \E t \in Threads : UL_Cool(t)
    \/ \E b \in Buttons : Press(b)
    \/ G_Exit \/ G_Set \/ G_Second
    \/ \E b \in {"red", "blue"} : SP_Read(b)
    \/ Inc_Write \/ Dec_Write
    \/ Wk_While \/ Wk_Temp \/ Wk_Reset \/ Wk_Screen \/ Wk_Serial \/ Wk_Write
    \/ Wk_Sleep

SpecThreads == InitThreads /\ [][NextThreads]_vars

(***************************************************************************)
(* Either script                                                           *)
(***************************************************************************)
Init == InitBeacon \/ InitThermo
Next == NextBeacon \/ NextThermo
Spec == Init /\ [][Next]_vars

(***************************************************************************)
(* Properties                                                              *)
(***************************************************************************)

\* C1 as stated: doDot in off moves to dot, goOff in dot moves to off, and a
\* second doDot in dot is rejected as InvalidTransition and leaves the state
\* at dot.
C1_DotAgainRejected ==
    /\ (lastEvent = "doDot" /\ lastFrom = "off")
          => (lastResult = "ok" /\ current_state = "dot")
    /\ (lastEvent = "goOff" /\ lastFrom = "dot")
          => (lastResult = "ok" /\ current_state = "off")
    /\ (lastEvent = "doDot" /\ lastFrom = "dot")
          => (lastResult = "InvalidTransition" /\ current_state = "dot")

\* C1 amended: doDot in off moves to dot, goOff in dot moves to off, and a
\* second doDot in dot is accepted and moves back to off with the red light
\* switched off.
C1_DotToggles ==
    /\ (lastEvent = "doDot" /\ lastFrom = "off")
          => (lastResult = "ok" /\ current_state = "dot")
    /\ (lastEvent = "goOff" /\ lastFrom = "dot")
          => (lastResult = "ok" /\ current_state = "off")
    /\ (lastEvent = "doDot" /\ lastFrom = "dot")
          => (lastResult = "ok" /\ current_state = "off" /\ redLight = "off")

C1_Witness ==
    lastEvent = "doDot" /\ lastFrom = "dot" /\ current_state = "off" /\ fires >= 2

\* the longest hold of an entry action, in quarter time-units
LongestHold == WPHold

\* C2 as stated: once endTransmission is set the transmit loop begins at most
\* one more hold, so the holds begun after the flag last at most the longest
\* single hold (3 time-units).
C2_StopsBetweenSymbols ==
    holdsSinceEnd <= 1 /\ delaySinceEnd <= LongestHold

\* C3 as stated: tick k of the worker shows the temperature when k is in the
\* first half of its block of 10 ticks (1-5, 11-15, ...) and mode/setpoint in
\* the second half (6-10, 16-20, ...).
C3_FiveAndFive ==
    \A k \in 1..Len(shown) :
        shown[k] = IF (k - 1) % 10 < 5 THEN "temp" ELSE "mode"

\* the words of a message: its maximal runs of characters other than blanks
WordStarts(m) == {i \in 1..Len(m) : m[i] # " " /\ (i = 1 \/ m[i - 1] = " ")}
WordEnd(m, i) ==
    CHOOSE j \in i..Len(m) :
        (\A k \in i..j : m[k] # " ") /\ (j = Len(m) \/ m[j + 1] = " ")
NthStart(m, n) ==
    CHOOSE i \in WordStarts(m) : Cardinality({j \in WordStarts(m) : j < i}) = n - 1
WordsOf(m) ==
    [n \in 1..Cardinality(WordStarts(m)) |->
        SubSeq(m, NthStart(m, n), WordEnd(m, NthStart(m, n)))]

RECURSIVE Join(_, _)
Join(parts, sep) ==
    IF Len(parts) = 0 THEN <<>>
    ELSE IF Len(parts) = 1 THEN parts[1]
    ELSE parts[1] \o <<sep>> \o Join(Tail(parts), sep)

\* the signals of a character of the code table, dotDashPause between them
CharPass(c) ==
    Join([i \in 1..Len(morseDict[c]) |->
            <<IF morseDict[c][i] = "." THEN "dot" ELSE "dash">>], "dotDashPause")
\* the characters of a word, letterPause between them
WordPass(w) == Join([i \in 1..Len(w) |-> CharPass(w[i])], "letterPause")
\* the words of a message, wordPause between them
MessagePass(m) ==
    Join([n \in 1..Len(WordsOf(m)) |-> WordPass(WordsOf(m)[n])], "wordPause")

Encodable(m) == \A i \in 1..Len(m) : m[i] \in DOMAIN morseDict \cup {" "}

\* C4: a completed pass over a message of blank-separated words of code-table
\* characters entered exactly the signals of each character in order, one
\* dotDashPause between the signals of a character, one letterPause between
\* the characters of a word, one wordPause between words, and nothing else.
C4_PassMatchesCode ==
    (passDone /\ Encodable(passMessage)) => trace = MessagePass(passMessage)

C4_Witness ==
    /\ passDone
    /\ passMessage = TwoWords
    /\ trace = <<"dot", "dotDashPause", "dash", "letterPause", "dot", "wordPause", "dot">>

\* a message without its characters that are not in the code table
Known(c) == c = " " \/ upper(<<c>>)[1] \in DOMAIN morseDict
WithoutUnknown(m) == upper(SelectSeq(m, Known))

\* C5 as stated: a completed pass over any message entered the signal and gap
\* states of the same message with the characters that are not in the code
\* table removed.
C5_UnknownContributesNothing ==
    passDone => trace = MessagePass(WithoutUnknown(passMessage))

\* C6 as stated: the display cleanup is called at most once and only after
\* the worker loop has exited, and once termination was requested the loop
\* does exit and call it: it has been called when the thread, or the process,
\* is over.
C6_CleanupExactlyOnce ==
    /\ cleanups <= 1
    /\ (cleanups = 1 /\ prog = "beacon") => tpc = "done"
    /\ (cleanups = 1 /\ prog = "thermostat") => wpc = "done"
    /\ (prog = "beacon" /\ tpc = "done") => cleanups = 1
    /\ (prog = "thermostat" /\ mainpc = "exited") => cleanups = 1

\* the integer part, rounding down, of a Celsius reading (in tenths) taken to
\* Fahrenheit
FloorFahrenheit(c) ==
    CHOOSE n \in -100..300 : 100 * n <= 18 * c + 3200 /\ 18 * c + 3200 < 100 * (n + 1)

\* C7: after a call of updateLights: in heat the red light pulses when the
\* floored temperature is below setPoint and is steady on otherwise, with the
\* blue light off; in cool the blue light pulses when it is above setPoint and
\* is steady on otherwise, with the red light off; in off both are off.
C7_LightsFollowState ==
    lit # NoCall =>
        LET temp == FloorFahrenheit(lit.c) IN
        /\ (lit.state = "heat" /\ temp < lit.setPoint)
              => (redLight = "pulse" /\ blueLight = "off")
        /\ (lit.state = "heat" /\ temp >= lit.setPoint)
              => (redLight = "on" /\ blueLight = "off")
        /\ (lit.state = "cool" /\ temp > lit.setPoint)
              => (blueLight = "pulse" /\ redLight = "off")
        /\ (lit.state = "cool" /\ temp <= lit.setPoint)
              => (blueLight = "on" /\ redLight = "off")
        /\ lit.state = "off" => (redLight = "off" /\ blueLight = "off")
        /\ lit.state = current_state /\ lit.setPoint = setPoint

C7_Witness ==
    /\ lit.state = "heat"
    /\ FloorFahrenheit(lit.c) = lit.setPoint
    /\ redLight = "on" /\ blueLight = "off"

\* C8: the worker writes to the serial port on ticks 30, 60, ... and on no
\* other tick, its counter is back at 1 right after each write, and what it
\* writes is "<mode>,<floored Fahrenheit temperature>,<setPoint>" and a newline.
C8_SerialEvery30 ==
    /\ Len(emitTicks) = tick \div 30
    /\ \A i \in 1..Len(emitTicks) : emitTicks[i] = 30 * i
    /\ (tick > 0 /\ tick % 30 = 0) => counter = 1
    /\ ser.written # <<>> =>
          /\ tick % 30 = 0 /\ tick > 0
          /\ ser.state = current_state /\ ser.setPoint = setPoint
          /\ ser.written = <<ser.state \o "," \o ToString(FloorFahrenheit(ser.c))
                              \o "," \o ToString(ser.setPoint) \o "\n">>

C8_Witness ==
    tick = 60 /\ emitTicks = <<30, 60>> /\ ser.written # <<>> /\ counter = 1

\* C9: the cycle event is never rejected and follows off -> heat -> cool ->
\* off: the state after one or two cycle events differs from the state before
\* them, the state after three is the state before them.
C9_CycleRing ==
    /\ cycleErrors = 0
    /\ \A i \in 1..Len(cycleHist) :
        /\ i + 1 <= Len(cycleHist) =>
              /\ cycleHist[i + 1] # cycleHist[i]
              /\ cycleHist[i + 1] = CASE cycleHist[i] = "off" -> "heat"
                                      [] cycleHist[i] = "heat" -> "cool"
                                      [] cycleHist[i] = "cool" -> "off"
        /\ i + 2 <= Len(cycleHist) => cycleHist[i + 2] # cycleHist[i]
        /\ i + 3 <= Len(cycleHist) => cycleHist[i + 3] = cycleHist[i]

C9_Witness ==
    Len(cycleHist) = 4 /\ cycleHist[1] = "cool" /\ cycleHist[4] = "cool"

\* C10: the automaton starts in off, and goOff is accepted in every state
\* other than off and leads to off.
C10_IdleReturn ==
    /\ fires = 0 => current_state = "off"
    /\ current_state \in CWStates
    /\ current_state # "off" => Target(goOff, current_state) = "off"
    /\ (lastEvent = "goOff" /\ lastFrom # "off")
          => (lastResult = "ok" /\ current_state = "off"
              /\ redLight = "off" /\ blueLight = "off")

C10_Witness ==
    lastEvent = "goOff" /\ lastFrom = "wordPause" /\ current_state = "off"

(***************************************************************************)
(* Beacon: legality of the events transmit fires, dead time, rendering,    *)
(* termination, LEDs, button                                               *)
(***************************************************************************)

FirePcs == {"sym_fire", "ddp_fire", "lp_fire", "wp_fire"}
InPass  == tpc \notin {"while", "render", "split", "cleanup", "done", "raised"}

\* C13: transmit never raises InvalidTransition, and each time it is about to
\* fire doDot, doDash, doDDP, doLP or doWP the automaton is in off, for every
\* message, every pass and every interleaving with button presses
C13_OnlyLegalEvents ==
    (prog = "beacon") =>
        /\ tpc # "raised"
        /\ (tpc \in FirePcs) => current_state = "off"

\* a later pass, after a button press, about to fire its first signal event
\* right after goOff left the last signal state of the pass before
C13_Witness ==
    /\ prog = "beacon" /\ tpc = "sym_fire" /\ trace = <<>>
    /\ deadTime = "off" /\ current_state = "off"
    /\ activeMessage # passMessage

\* C14: between two consecutive entries into a signal state the automaton
\* returns to off and holds one gap state, the last signal of a pass and the
\* first signal of the next pass included
C14_GapBetweenSignals ==
    (prog = "beacon") => deadTime \notin {"backToBack", "noOff"}

\* C15: the message rendered before a pass is the message whose symbols the
\* pass transmits
C15_RenderedIsTransmitted ==
    (prog = "beacon" /\ InPass) => screen = <<"Sending:", passMessage>>

\* C16: once the transmit loop has exited the automaton is in off and both
\* LEDs are off
C16_OffAfterLoop ==
    (prog = "beacon" /\ tpc = "done") =>
        /\ current_state = "off"
        /\ redLight = "off" /\ blueLight = "off"

\* C18: the red LED is on only in dot, the blue LED only in dash; both are off
\* in off and in every gap state; they are never on together
C18_LedsFollowSignal ==
    (prog = "beacon") =>
        /\ (redLight = "on") => current_state = "dot"
        /\ (blueLight = "on") => current_state = "dash"
        /\ (current_state \in Gaps \cup {"off"}) =>
               (redLight = "off" /\ blueLight = "off")
        /\ ~(redLight = "on" /\ blueLight = "on")

\* a gap held right after a dash that followed a dot: each LED has been on and
\* is off again
C18_Witness ==
    /\ prog = "beacon" /\ tpc = "lp_hold" /\ current_state = "letterPause"
    /\ Len(trace) >= 4
    /\ trace[Len(trace) - 1] = "dash" /\ trace[Len(trace) - 3] = "dot"
    /\ redLight = "off" /\ blueLight = "off"

\* a step that changed activeMessage (only a button press does)
Pressed == activeMessage' # activeMessage

\* C20: a button press switches activeMessage between the two fixed messages
\* and changes nothing else: no transition, same state, LEDs and symbols of the
\* pass in progress; the pass in progress keeps the message it started with
\* and the next pass takes the toggled one
C20_ButtonOnlyToggles ==
    /\ []((prog = "beacon") =>
            /\ activeMessage \in {message1, message2}
            /\ InPass => wordList = split(passMessage)
            /\ (passDone /\ Encodable(passMessage)) =>
                   trace = MessagePass(passMessage))
    /\ [][(prog = "beacon" /\ Pressed) =>
            /\ activeMessage' = IF activeMessage = message1
                                THEN message2 ELSE message1
            /\ UNCHANGED <<commonVars, message1, message2, endTransmission,
                           tpc, txLoop, txHist>>]_vars
    /\ [][(prog = "beacon" /\ tpc = "split" /\ tpc' # "split") =>
            /\ passMessage' = activeMessage
            /\ wordList' = split(activeMessage)]_vars

\* after a press during the pass of message1, a full pass of message2 has
\* been transmitted
C20_Witness ==
    /\ prog = "beacon" /\ message1 = SOS /\ passDone
    /\ passMessage = message2 /\ activeMessage = message2
    /\ trace = MessagePass(OK)

(***************************************************************************)
(* Thermostat: shutdown                                                    *)
(***************************************************************************)

\* C19: on shutdown the worker sees the flag and releases the display within
\* the main thread's grace period of one time-unit: when the process exits
\* the worker is over and the display has been cleaned up
C19_CleanupWithinGrace ==
    (prog = "thermostat" /\ mainpc = "exited") =>
        /\ wpc = "done"
        /\ screen = <<>>

(***************************************************************************)
(* Thermostat, thread by thread: sensor lock, indicators, setPoint         *)
(***************************************************************************)

\* the threads inside the with sensor_lock block
Reading == {t \in Threads : pc[t] = "gf_read"}

\* C11: the sensor is read only by the thread that holds sensor_lock, at most
\* one thread is inside the read at a time, and the lock is held only by a
\* thread that is inside the read, whose next step gives it back
C11_SensorLock ==
    (prog = "threads") =>
        /\ \A t \in Reading : sensor_lock = t
        /\ Cardinality(Reading) <= 1
        /\ (sensor_lock # "free") => sensor_lock \in Reading

\* the worker reads the sensor while a callback waits for the lock
C11_Witness ==
    /\ prog = "threads"
    /\ pc["worker"] = "gf_read" /\ sensor_lock = "worker"
    /\ \E b \in Buttons : pc[b] = "gf_acquire"

\* no callback is running and the worker is not inside updateLights
Quiet ==
    /\ \A b \in Buttons : pc[b] = "idle"
    /\ \/ pc["worker"] \in {"w_while", "w_temp", "w_reset", "w_screen", "w_serial",
                            "w_write", "w_sleep"}
       \/ (pc["worker"] \in {"gf_acquire", "gf_read"}
              /\ gfret["worker"] # "ul_lightsoff")

\* C12: whenever no updateLights call is in progress the indicators are those
\* of the current state and of the comparison of the temperature with the
\* current setPoint
C12_IndicatorsAgree ==
    (prog = "threads" /\ Quiet) =>
        \E c \in ThreadReadings :
            LET l == updateLights(current_state, floor(getFahrenheit(c)), setPoint)
            IN redLight = l.red /\ blueLight = l.blue

\* C17: with no increase or decrease callback in progress, setPoint is 72 plus
\* the completed increases minus the completed decreases
C17_NoLostUpdate ==
    (prog = "threads" /\ pc["red"] = "idle" /\ pc["blue"] = "idle") =>
        setPoint = DefaultSetPoint + done["red"] - done["blue"]

====
